---------------------------- MODULE Spec2Model ----------------------------
(***************************************************************************)
(* Model of the two combinatorial tools of the ECE322 scripts:             *)
(*   - scripts/mc_dc_solver.py      : class MCDCSolver (truth table,       *)
(*                                    MC/DC independence pairs, suite)     *)
(*   - scripts/vector_toolkit_cli.py: exact_min_set_cover and              *)
(*                                    greedy_set_cover over a 0/1 matrix   *)
(*                                                                         *)
(* A decision text is a sequence of tokens; the text the program sees is   *)
(* the tokens joined by single blanks.  Test numbers are 1-based as in the *)
(* program, test indices of the set-cover functions are 0-based as in the  *)
(* program.                                                                *)
(***************************************************************************)
EXTENDS Integers, Sequences, FiniteSets, TLC

VARIABLES
    original_expression,  \* MCDCSolver.original_expression (token sequence)
    expression,           \* MCDCSolver.expression (normalized token sequence)
    variables,            \* MCDCSolver.variables (sorted list of names)
    truth_table,          \* MCDCSolver.truth_table (list of rows)
    mcdc_pairs,           \* MCDCSolver.mcdc_pairs (dict: name -> list of pairs)
    op,                   \* name of the last public method that returned
    ret,                  \* the value that method returned
    gen_calls,            \* number of executions of generate_truth_table so far
    out_covered,          \* last printing call: per variable shown by
                          \* print_mcdc_analysis, whether pairs were printed
    out_warning,          \* whether solve printed its closing warning
    raised,               \* whether the last printing call ended in an exception
    M,                    \* the coverage matrix handed to the set-cover solvers
    exact_ret,            \* result of exact_min_set_cover(M), or NotRun
    pc,                   \* position of greedy_set_cover: idle / loop / done
    uncovered,            \* greedy_set_cover local: set of uncovered faults
    chosen,               \* greedy_set_cover local: list of chosen tests
    greedy_ret,           \* result of greedy_set_cover(M), or NotRun
    threshold,            \* mode_min_tests_cover_faults local: threshold
    method,               \* mode_min_tests_cover_faults local: method
    mode_chosen,          \* mode_min_tests_cover_faults local: chosen
    fault_count,          \* read_fault_coverage local: m
    test_count,           \* read_fault_coverage local: t
    rows,                 \* read_fault_coverage local: rows
    raw,                  \* read_fault_coverage local: raw (last line read)
    outcome,              \* whether the last line was appended or rejected
    vec_s,                \* parse_binary_vector called on its own: argument s
    vec_m,                \* parse_binary_vector called on its own: argument m
    vec_ret               \* what that call returned, or NotParsed

vars == <<original_expression, expression, variables, truth_table, mcdc_pairs,
          op, ret, gen_calls, out_covered, out_warning, raised,
          M, exact_ret, pc, uncovered, chosen, greedy_ret,
          threshold, method, mode_chosen,
          fault_count, test_count, rows, raw, outcome,
          vec_s, vec_m, vec_ret>>

solverVars == <<original_expression, expression, variables, truth_table,
                mcdc_pairs, op, ret, gen_calls>>

reportVars == <<out_covered, out_warning, raised>>

coverVars == <<M, exact_ret, pc, uncovered, chosen, greedy_ret>>

modeVars == <<threshold, method, mode_chosen>>

readVars == <<fault_count, test_count, rows, raw, outcome,
              vec_s, vec_m, vec_ret>>

-----------------------------------------------------------------------------
(* Bounds of the model. *)

\* longest decision text, in tokens, that is enumerated exhaustively
MaxLen == 4

\* most executions of generate_truth_table on one solver
MaxGen == 2

\* most tests (rows) of a coverage matrix
MaxT == 3

\* most faults (columns) of a coverage matrix
MaxM == 4

\* most entries (tests x faults) of a coverage matrix
MaxCells == 12

-----------------------------------------------------------------------------
(* Generic helpers. *)

Range(s) == { s[i] : i \in DOMAIN s }

Pow2(n) == 2 ^ n

\* F applied to the value of v, which is computed once
Strict(v, F(_)) == CHOOSE r \in { F(x) : x \in {v} } : TRUE

RECURSIVE Flatten(_)
Flatten(ss) == IF ss = <<>> THEN <<>> ELSE Head(ss) \o Flatten(Tail(ss))

RECURSIVE SeqsUpTo(_, _)
SeqsUpTo(S, n) ==
    IF n = 0 THEN { <<>> }
    ELSE LET shorter == SeqsUpTo(S, n - 1)
         IN  shorter \cup { Append(s, x) : s \in shorter, x \in S }

-----------------------------------------------------------------------------
(* Python values that a row's 'result' can hold.  Booleans of the variable *)
(* columns are TLA+ booleans; results are kept as strings because eval can *)
(* also yield the empty tuple, and the except branch stores None.          *)

PyTrue  == "True"
PyFalse == "False"
PyTuple == "()"
PyNone  == "None"
PyRaise == "raise"     \* an exception raised while evaluating (never stored)

PyBool(b) == IF b THEN PyTrue ELSE PyFalse

Truthy(v) == v = PyTrue


-----------------------------------------------------------------------------
(* MCDCSolver.__init__ and its helpers. *)

\* the single lowercase letters, in sorted order (the order sorted() gives)
Letters == <<"a", "b", "c", "d">>

\* the tokens a decision text is written with
Tokens == {"a", "b", "&&", "||", "!", "(", ")"}

\* str.replace of the three operators, token by token
NormalizeToken(tok) ==
    CASE tok = "&&" -> "and"
      [] tok = "||" -> "or"
      [] tok = "!"  -> "not"
      [] OTHER      -> tok

_normalize_expression(expr) == [i \in DOMAIN expr |-> NormalizeToken(expr[i])]

\* re.findall(r'\b[a-z]\b', ...): the tokens that are one lowercase letter
FindAllLetters(expr) ==
    { expr[i] : i \in { j \in DOMAIN expr : expr[j] \in Range(Letters) } }

\* variant: the letters in descending order
SortedLetters_Reversed(S) ==
    LET n == Len(Letters) IN
    SelectSeq([i \in 1..n |-> Letters[n + 1 - i]], LAMBDA l : l \in S)

\* sorted(list(set(...)))
SortedLetters(S) == SelectSeq(Letters, LAMBDA l : l \in S)

_extract_variables(expr) == SortedLetters(FindAllLetters(expr))

-----------------------------------------------------------------------------
(* eval(self.expression, {"__builtins__": None}, var_values): the Python   *)
(* expression grammar restricted to the tokens that can occur,             *)
(*     or_test  ::= and_test ('or' and_test)*                              *)
(*     and_test ::= not_test ('and' not_test)*                             *)
(*     not_test ::= 'not' not_test | primary                               *)
(*     primary  ::= atom ( '(' [or_test] ')' )*      (a call)              *)
(*     atom     ::= NAME | '(' ')' | '(' or_test ')'                       *)
(* evaluated with Python's short-circuit rules.  A parse result is         *)
(* [ok, pos, val]: ok is FALSE on a syntax error, pos is the next token,   *)
(* val the value, PyRaise when evaluating that part raises.                *)

Tok(toks, pos) == IF pos \in DOMAIN toks THEN toks[pos] ELSE "<eof>"

Keywords == {"and", "or", "not", "(", ")", "<eof>"}

ParseFail == [ok |-> FALSE, pos |-> 0, val |-> PyRaise]

Parsed(p, v) == [ok |-> TRUE, pos |-> p, val |-> v]

\* a name is looked up in var_values; a missing name raises NameError
LookupName(name, env) ==
    IF name \in DOMAIN env THEN PyBool(env[name]) ELSE PyRaise

\* x or y
PyOr(x, y) == IF x = PyRaise THEN PyRaise ELSE IF Truthy(x) THEN x ELSE y

\* x and y
PyAnd(x, y) == IF x = PyRaise THEN PyRaise ELSE IF Truthy(x) THEN y ELSE x

\* not x
PyNot(x) == IF x = PyRaise THEN PyRaise ELSE PyBool(~Truthy(x))

RECURSIVE ParseOr(_, _, _)
RECURSIVE ParseOrRest(_, _, _, _)
RECURSIVE ParseAnd(_, _, _)
RECURSIVE ParseAndRest(_, _, _, _)
RECURSIVE ParseNot(_, _, _)
RECURSIVE ParseTrailers(_, _, _)

ParseAtom(toks, pos, env) ==
    IF Tok(toks, pos) = "(" THEN
        IF Tok(toks, pos + 1) = ")" THEN Parsed(pos + 2, PyTuple)
        ELSE Strict(ParseOr(toks, pos + 1, env), LAMBDA inner :
               IF inner.ok /\ Tok(toks, inner.pos) = ")"
               THEN Parsed(inner.pos + 1, inner.val)
               ELSE ParseFail)
    ELSE IF Tok(toks, pos) = "True" THEN Parsed(pos + 1, PyTrue)
    ELSE IF Tok(toks, pos) \notin Keywords
         THEN Parsed(pos + 1, LookupName(Tok(toks, pos), env))
         ELSE ParseFail

\* a bool or a tuple is not callable: every call raises TypeError
ParseTrailers(toks, pos, env) ==
    IF Tok(toks, pos) # "(" THEN Parsed(pos, PyNone)
    ELSE IF Tok(toks, pos + 1) = ")" THEN
        Strict(ParseTrailers(toks, pos + 2, env), LAMBDA more :
            IF more.ok THEN Parsed(more.pos, PyRaise) ELSE ParseFail)
    ELSE Strict(ParseOr(toks, pos + 1, env), LAMBDA arg :
            IF arg.ok /\ Tok(toks, arg.pos) = ")"
            THEN Strict(ParseTrailers(toks, arg.pos + 1, env), LAMBDA more :
                    IF more.ok THEN Parsed(more.pos, PyRaise) ELSE ParseFail)
            ELSE ParseFail)

ParsePrimary(toks, pos, env) ==
    Strict(ParseAtom(toks, pos, env), LAMBDA a :
        IF ~a.ok THEN ParseFail
        ELSE Strict(ParseTrailers(toks, a.pos, env), LAMBDA tr :
                IF ~tr.ok THEN ParseFail
                ELSE IF tr.pos = a.pos THEN a
                ELSE Parsed(tr.pos, PyRaise)))

\* variant of ParseNot: not takes a whole and_test as its operand, so it
\* binds more loosely than and
ParseNot_Loose(toks, pos, env) ==
    IF Tok(toks, pos) = "not"
    THEN Strict(ParseAnd(toks, pos + 1, env), LAMBDA x :
            IF x.ok THEN Parsed(x.pos, PyNot(x.val)) ELSE ParseFail)
    ELSE ParsePrimary(toks, pos, env)

ParseNot(toks, pos, env) ==
    IF Tok(toks, pos) = "not"
    THEN Strict(ParseNot(toks, pos + 1, env), LAMBDA x :
            IF x.ok THEN Parsed(x.pos, PyNot(x.val)) ELSE ParseFail)
    ELSE ParsePrimary(toks, pos, env)

ParseAndRest(toks, pos, env, left) ==
    IF Tok(toks, pos) # "and" THEN Parsed(pos, left)
    ELSE Strict(ParseNot(toks, pos + 1, env), LAMBDA y :
            IF y.ok
            THEN Strict(PyAnd(left, y.val), LAMBDA both :
                    ParseAndRest(toks, y.pos, env, both))
            ELSE ParseFail)

ParseAnd(toks, pos, env) ==
    Strict(ParseNot(toks, pos, env), LAMBDA x :
        IF x.ok THEN ParseAndRest(toks, x.pos, env, x.val) ELSE ParseFail)

ParseOrRest(toks, pos, env, left) ==
    IF Tok(toks, pos) # "or" THEN Parsed(pos, left)
    ELSE Strict(ParseAnd(toks, pos + 1, env), LAMBDA y :
            IF y.ok
            THEN Strict(PyOr(left, y.val), LAMBDA either :
                    ParseOrRest(toks, y.pos, env, either))
            ELSE ParseFail)

ParseOr(toks, pos, env) ==
    Strict(ParseAnd(toks, pos, env), LAMBDA x :
        IF x.ok THEN ParseOrRest(toks, x.pos, env, x.val) ELSE ParseFail)

\* the value of eval, PyRaise when eval raises (SyntaxError included)
Eval(expr, env) ==
    Strict(ParseOr(expr, 1, env), LAMBDA r :
        IF r.ok /\ r.pos = Len(expr) + 1 THEN r.val ELSE PyRaise)

-----------------------------------------------------------------------------
(* MCDCSolver.generate_truth_table *)

\* variant of Product: each new element is put in front ([y] + x), so the
\* first variable varies fastest
RECURSIVE Product_FirstFastest(_, _)
Product_FirstFastest(pool, n) ==
    IF n = 0 THEN << <<>> >>
    ELSE LET result == Product_FirstFastest(pool, n - 1)
         IN  Flatten([i \in 1..Len(result) |->
                        [j \in 1..Len(pool) |-> <<pool[j]>> \o result[i]]])

\* itertools.product(pool, repeat=n) as a list: result = [[]], then for
\* each of the n pools result = [x + [y] for x in result for y in pool]
RECURSIVE Product(_, _)
Product(pool, n) ==
    IF n = 0 THEN << <<>> >>
    ELSE LET result == Product(pool, n - 1)
         IN  Flatten([i \in 1..Len(result) |->
                        [j \in 1..Len(pool) |-> Append(result[i], pool[j])]])

\* dict(zip(self.variables, combination))
ZipDict(names, combination) ==
    [v \in Range(names) |->
        combination[CHOOSE i \in DOMAIN names : names[i] = v]]

\* the try/except around eval: an exception stores None
EvalResult(expr, var_values) ==
    LET v == Eval(expr, var_values) IN IF v = PyRaise THEN PyNone ELSE v

\* the row appended for one combination
TestCase(test_num, combination, names, expr) ==
    LET var_values == ZipDict(names, combination)
    IN  [test_num |-> test_num,
         vals     |-> var_values,
         result   |-> EvalResult(expr, var_values)]

\* variant of NewRows: enumerate without start=1, rows numbered from 0
NewRows_FromZero(names, expr) ==
    LET combos == Product(<<FALSE, TRUE>>, Len(names))
    IN  [k \in 1..Len(combos) |-> TestCase(k - 1, combos[k], names, expr)]

\* the rows one call appends, in order
NewRows(names, expr) ==
    LET combos == Product(<<FALSE, TRUE>>, Len(names))
    IN  [k \in 1..Len(combos) |-> TestCase(k, combos[k], names, expr)]

\* self.truth_table after the call (the list is appended to, never cleared)
generate_truth_table(table, names, expr) == table \o NewRows(names, expr)

-----------------------------------------------------------------------------
(* MCDCSolver.find_mcdc_pairs *)

\* variant of Qualifies: the other variables are not compared
Qualifies_AnyOthers(test1, test2, var, names) ==
    LET target_var_flips == test1.vals[var] # test2.vals[var]
        result_changes   == test1.result # test2.result
    IN  target_var_flips /\ result_changes

\* the condition of line 127 for rows test1, test2 and variable var
Qualifies(test1, test2, var, names) ==
    LET other_vars_same ==
            \A v \in Range(names) \ {var} : test1.vals[v] = test2.vals[v]
        target_var_flips == test1.vals[var] # test2.vals[var]
        result_changes   == test1.result # test2.result
    IN  other_vars_same /\ target_var_flips /\ result_changes

\* the pairs appended while the outer loop is at position i
PairsAt(table, i, var, names) ==
    LET js == SelectSeq([j \in 1..Len(table) |-> j],
                        LAMBDA j : ~(i >= j)
                                   /\ Qualifies(table[i], table[j], var, names))
    IN  [k \in 1..Len(js) |-> <<table[i].test_num, table[js[k]].test_num>>]

\* variant of PairsFor: the search stops at the first pair found
PairsFor_FirstOnly(table, var, names) ==
    LET all == Flatten([i \in 1..Len(table) |-> PairsAt(table, i, var, names)])
    IN  IF all = <<>> THEN <<>> ELSE <<all[1]>>

\* the list 'pairs' built for one variable
PairsFor(table, var, names) ==
    Flatten([i \in 1..Len(table) |-> PairsAt(table, i, var, names)])

\* self.mcdc_pairs after the loop over self.variables
find_mcdc_pairs(pairs, table, names) ==
    [v \in (DOMAIN pairs) \cup Range(names) |->
        IF v \in Range(names) THEN PairsFor(table, v, names) ELSE pairs[v]]

-----------------------------------------------------------------------------
(* MCDCSolver.get_minimal_test_suite *)

\* variant: every test of every pair is collected
get_minimal_test_suite_AllPairs(pairs) ==
    UNION { UNION { {pairs[v][k][1], pairs[v][k][2]} : k \in DOMAIN pairs[v] } :
              v \in DOMAIN pairs }

\* variant: the last pair of each list (pairs[-1]) instead of the first
get_minimal_test_suite_LastPair(pairs) ==
    UNION { {pairs[v][Len(pairs[v])][1], pairs[v][Len(pairs[v])][2]} :
              v \in { w \in DOMAIN pairs : pairs[w] # <<>> } }

\* lines 143-152
get_minimal_test_suite(pairs) ==
    UNION { {pairs[v][1][1], pairs[v][1][2]} :
              v \in { w \in DOMAIN pairs : pairs[w] # <<>> } }

-----------------------------------------------------------------------------
(* The solver as a state machine: one action per public method. *)

\* what a set-cover function returned: None, a list of test indices, or
\* nothing yet
NotRun == [kind |-> "NotRun", tests |-> <<>>]

ReturnNone == [kind |-> "None", tests |-> <<>>]

ReturnList(l) == [kind |-> "list", tests |-> l]

\* longer decision texts: the examples the program and its specification
\* give, and texts that exercise precedence and an evaluation that raises
ExampleDecisions == {
    <<"(", "a", "&&", "b", ")", "||", "(", "c", "&&", "!", "d", ")">>,
    <<"a", "||", "(", "(", "!", "b", ")", "&&", "c", "&&", "d", ")">>,
    <<"(", "a", "&&", "b", ")", "||", "(", "c", "&&", "d", ")">>,
    <<"a", "&&", "(", "a", "||", "b", ")">>,
    <<"a", "||", "b", "&&", "c">>,
    <<"!", "a", "&&", "b", "||", "c">>,
    <<"a", "||", "b", "(", ")">>,
    <<"a", "||", "ab">>,
    <<"ab", "&&", "b">>,
    <<"a", "&&", "b", "||", "c", "&&", "d">>,
    <<"True">>,
    <<"a", "&&", "True">> }

Decisions == SeqsUpTo(Tokens, MaxLen) \cup ExampleDecisions

CoverIdle ==
    /\ M = <<>>
    /\ exact_ret = NotRun
    /\ pc = "idle"
    /\ uncovered = {}
    /\ chosen = <<>>
    /\ greedy_ret = NotRun

\* no printing method has been called yet
ReportIdle ==
    /\ out_covered = <<>>
    /\ out_warning = FALSE
    /\ raised = FALSE

\* mode_min_tests_cover_faults has not run
ModeIdle ==
    /\ threshold = 0
    /\ method = "none"
    /\ mode_chosen = NotRun

\* parse_binary_vector: not called yet, raised, or returned a vector
NotParsed == [kind |-> "NotParsed", bits |-> <<>>]

ParseRaises == [kind |-> "raise", bits |-> <<>>]

ParseReturns(bits) == [kind |-> "return", bits |-> bits]

\* read_fault_coverage has not run
LoopIdle ==
    /\ fault_count = 0
    /\ test_count = 0
    /\ rows = <<>>
    /\ raw = <<>>
    /\ outcome = "none"

\* parse_binary_vector has not been called on its own
VectorIdle ==
    /\ vec_s = <<>>
    /\ vec_m = 0
    /\ vec_ret = NotParsed

ReadIdle ==
    /\ LoopIdle
    /\ VectorIdle

\* MCDCSolver(text)
Init ==
    /\ original_expression \in Decisions
    /\ expression = _normalize_expression(original_expression)
    /\ variables = _extract_variables(expression)
    /\ truth_table = <<>>
    /\ mcdc_pairs = <<>>
    /\ op = "__init__"
    /\ ret = <<>>
    /\ gen_calls = 0
    /\ ReportIdle
    /\ CoverIdle
    /\ ModeIdle
    /\ ReadIdle

GenerateTruthTable ==
    /\ gen_calls < MaxGen
    /\ truth_table' = generate_truth_table(truth_table, variables, expression)
    /\ gen_calls' = gen_calls + 1
    /\ op' = "generate_truth_table"
    /\ ret' = truth_table'
    /\ UNCHANGED <<original_expression, expression, variables, mcdc_pairs>>
    /\ UNCHANGED <<reportVars, coverVars, modeVars, readVars>>

\* variant of the guard: generate whether or not the table has rows
NeedsGeneration_Always(table) == TRUE

\* the guard of lines 103 and 156: not self.truth_table
NeedsGeneration(table) == table = <<>>

\* lines 103-104 and 156-157: the table after the guarded call
LazyTable(table, names, expr) ==
    IF NeedsGeneration(table)
    THEN generate_truth_table(table, names, expr)
    ELSE table

\* the number of executions of generate_truth_table the guarded call makes
LazyCount(table) == IF NeedsGeneration(table) THEN 1 ELSE 0

\* find_mcdc_pairs on a solver holding table and pairs: the fields after
\* it, and the number of generations it made
FindState(table, pairs, names, expr) ==
    Strict(LazyTable(table, names, expr), LAMBDA t :
        [table |-> t,
         pairs |-> find_mcdc_pairs(pairs, t, names),
         gens  |-> LazyCount(table)])

\* lines 140-141 and 177-178: if not self.mcdc_pairs: self.find_mcdc_pairs()
LazyFind(table, pairs, names, expr) ==
    IF DOMAIN pairs = {}
    THEN FindState(table, pairs, names, expr)
    ELSE [table |-> table, pairs |-> pairs, gens |-> 0]

FindMcdcPairs ==
    /\ \E r \in {FindState(truth_table, mcdc_pairs, variables, expression)} :
       /\ truth_table' = r.table
       /\ gen_calls' = gen_calls + r.gens
       /\ mcdc_pairs' = r.pairs
    /\ op' = "find_mcdc_pairs"
    /\ ret' = mcdc_pairs'
    /\ UNCHANGED <<original_expression, expression, variables>>
    /\ UNCHANGED <<reportVars, coverVars, modeVars, readVars>>

GetMinimalTestSuite ==
    /\ \E r \in {LazyFind(truth_table, mcdc_pairs, variables, expression)} :
       /\ truth_table' = r.table
       /\ gen_calls' = gen_calls + r.gens
       /\ mcdc_pairs' = r.pairs
    /\ op' = "get_minimal_test_suite"
    /\ ret' = get_minimal_test_suite(mcdc_pairs')
    /\ UNCHANGED <<original_expression, expression, variables>>
    /\ UNCHANGED <<reportVars, coverVars, modeVars, readVars>>

\* int(v) of lines 172, 202, 207 and 226: TypeError unless v is a bool
IntRaises(v) == v \notin {PyTrue, PyFalse}

\* print_truth_table, lines 169-173: every row is shown, int(test['result'])
\* of line 172 included
print_truth_table_raises(table) ==
    \E k \in DOMAIN table : IntRaises(table[k].result)

\* lines 196-207: the rows self.truth_table[t1-1] and self.truth_table[t2-1]
\* of a pair are shown with int(...) of their results
PairRaises(table, pair) ==
    \/ IntRaises(table[pair[1]].result)
    \/ IntRaises(table[pair[2]].result)

\* lines 192-207 for one variable
VariableRaises(table, pairs, var) ==
    \E k \in DOMAIN pairs[var] : PairRaises(table, pairs[var][k])

\* print_mcdc_analysis, lines 184-207
print_mcdc_analysis_raises(table, pairs, names) ==
    \E i \in DOMAIN names : VariableRaises(table, pairs, names[i])

\* the variables the loop of line 184 reaches: all, or those up to the
\* first one whose pairs cannot be shown
ReachedVariables(table, pairs, names) ==
    { names[i] : i \in { j \in DOMAIN names :
          \A h \in 1..(j - 1) : ~VariableRaises(table, pairs, names[h]) } }

\* lines 184-193: per variable reached, the pairs are printed (TRUE) or the
\* NO VALID MC/DC PAIRS FOUND notice is (FALSE)
AnalysisReport(table, pairs, names) ==
    [v \in ReachedVariables(table, pairs, names) |-> pairs[v] # <<>>]

\* print_minimal_suite, lines 221-226: the rows of the suite are shown
print_minimal_suite_raises(table, suite) ==
    \E n \in suite : IntRaises(table[n].result)

\* line 241
SolveWarning(pairs) ==
    \E v \in DOMAIN pairs : Len(pairs[v]) = 0

\* print_truth_table called on its own: the guarded generation of lines
\* 156-157, then the rows
print_truth_table ==
    /\ \E table \in {LazyTable(truth_table, variables, expression)} :
          /\ truth_table' = table
          /\ raised' = print_truth_table_raises(table)
    /\ gen_calls' = gen_calls + LazyCount(truth_table)
    /\ op' = "print_truth_table"
    /\ ret' = <<>>
    /\ out_covered' = <<>>
    /\ out_warning' = FALSE
    /\ UNCHANGED <<original_expression, expression, variables, mcdc_pairs>>
    /\ UNCHANGED <<coverVars, modeVars, readVars>>

\* print_mcdc_analysis called on its own: the guarded find of lines
\* 177-178, then the report
print_mcdc_analysis ==
    /\ \E r \in {LazyFind(truth_table, mcdc_pairs, variables, expression)} :
          /\ truth_table' = r.table
          /\ gen_calls' = gen_calls + r.gens
          /\ mcdc_pairs' = r.pairs
          /\ raised' = print_mcdc_analysis_raises(r.table, r.pairs, variables)
          /\ out_covered' = AnalysisReport(r.table, r.pairs, variables)
    /\ op' = "print_mcdc_analysis"
    /\ ret' = <<>>
    /\ out_warning' = FALSE
    /\ UNCHANGED <<original_expression, expression, variables>>
    /\ UNCHANGED <<coverVars, modeVars, readVars>>

\* print_minimal_suite called on its own: get_minimal_test_suite of line
\* 211 with its guarded find, then the rows of the suite
print_minimal_suite ==
    /\ \E r \in {LazyFind(truth_table, mcdc_pairs, variables, expression)} :
          /\ truth_table' = r.table
          /\ gen_calls' = gen_calls + r.gens
          /\ mcdc_pairs' = r.pairs
          /\ raised' = print_minimal_suite_raises(
                           r.table, get_minimal_test_suite(r.pairs))
    /\ op' = "print_minimal_suite"
    /\ ret' = <<>>
    /\ out_covered' = <<>>
    /\ out_warning' = FALSE
    /\ UNCHANGED <<original_expression, expression, variables>>
    /\ UNCHANGED <<coverVars, modeVars, readVars>>

\* solve: print_truth_table (guarded generation, then the rows), then
\* print_mcdc_analysis (guarded find, then the report), print_minimal_suite
\* (get_minimal_test_suite with its guarded find, then the rows of the
\* suite) and the closing warning; an exception in one of them ends it there
Solve ==
    /\ op' = "solve"
    /\ ret' = <<>>
    /\ \E table \in {LazyTable(truth_table, variables, expression)} :
          IF print_truth_table_raises(table)
          THEN /\ raised' = TRUE
               /\ truth_table' = table
               /\ gen_calls' = gen_calls + LazyCount(truth_table)
               /\ out_covered' = <<>>
               /\ out_warning' = FALSE
               /\ UNCHANGED mcdc_pairs
          ELSE \E shown \in {LazyFind(table, mcdc_pairs, variables, expression)} :
               IF print_mcdc_analysis_raises(shown.table, shown.pairs, variables)
               THEN /\ raised' = TRUE
                    /\ truth_table' = shown.table
                    /\ gen_calls' = gen_calls + LazyCount(truth_table)
                                      + shown.gens
                    /\ mcdc_pairs' = shown.pairs
                    /\ out_covered' = AnalysisReport(shown.table, shown.pairs,
                                                     variables)
                    /\ out_warning' = FALSE
               ELSE \E suite \in {LazyFind(shown.table, shown.pairs,
                                           variables, expression)} :
                    /\ raised' = print_minimal_suite_raises(
                                     suite.table,
                                     get_minimal_test_suite(suite.pairs))
                    /\ truth_table' = suite.table
                    /\ gen_calls' = gen_calls + LazyCount(truth_table)
                                      + shown.gens + suite.gens
                    /\ mcdc_pairs' = suite.pairs
                    /\ out_covered' = AnalysisReport(shown.table, shown.pairs,
                                                     variables)
                    /\ out_warning' = (~raised' /\ SolveWarning(suite.pairs))
    /\ UNCHANGED <<original_expression, expression, variables>>
    /\ UNCHANGED <<coverVars, modeVars, readVars>>

Next ==
    \/ GenerateTruthTable
    \/ FindMcdcPairs
    \/ GetMinimalTestSuite
    \/ print_truth_table
    \/ print_mcdc_analysis
    \/ print_minimal_suite
    \/ Solve

Spec == Init /\ [][Next]_vars

-----------------------------------------------------------------------------
(* vector_toolkit_cli.py: the coverage matrix.  M is the list of its rows, *)
(* each a list of m entries 0/1; tests and faults are numbered from 0 as   *)
(* in the program, so M[i, f] of the program is M[i + 1][f + 1] here.      *)

NumTests(mat) == Len(mat)

NumFaults(mat) == Len(mat[1])

Cell(mat, i, f) == mat[i + 1][f + 1]

\* covered |= M[idx] on 0/1 entries
BitOr(x, y) == IF x = 1 \/ y = 1 THEN 1 ELSE 0

RECURSIVE OrRows(_, _, _)
OrRows(mat, combo, covered) ==
    IF combo = <<>> THEN covered
    ELSE OrRows(mat, Tail(combo),
                [f \in DOMAIN covered |-> BitOr(covered[f], mat[Head(combo) + 1][f])])

\* covered after the loop of lines 187-189
CoveredBy(mat, combo) ==
    OrRows(mat, combo, [f \in 1..NumFaults(mat) |-> 0])

\* np.ones(m, dtype=int)
Target(mat) == [f \in 1..NumFaults(mat) |-> 1]

-----------------------------------------------------------------------------
(* exact_min_set_cover *)

\* itertools.combinations(range(lo, t), r) as a list: the r-tuples of
\* ascending indices, in the order the iterator emits them
RECURSIVE Combinations(_, _, _)
Combinations(lo, t, r) ==
    IF r = 0 THEN << <<>> >>
    ELSE Flatten([k \in 1..(IF t - r - lo + 1 > 0 THEN t - r - lo + 1 ELSE 0) |->
            LET first == lo + k - 1
                rest  == Combinations(first + 1, t, r - 1)
            IN  [n \in 1..Len(rest) |-> <<first>> \o rest[n]]])

\* variant of FirstCover: no early return, the last covering combination
\* of the size is kept
FirstCover_Last(mat, combos) ==
    LET hits == SelectSeq(combos, LAMBDA combo : CoveredBy(mat, combo) = Target(mat))
    IN  IF hits = <<>> THEN ReturnNone ELSE ReturnList(hits[Len(hits)])

\* the inner loop over the combinations of one size: the first that covers
FirstCover(mat, combos) ==
    LET hits == SelectSeq(combos, LAMBDA combo : CoveredBy(mat, combo) = Target(mat))
    IN  IF hits = <<>> THEN ReturnNone ELSE ReturnList(hits[1])

\* variant of ExactFrom: range(1, t) instead of range(1, t + 1)
RECURSIVE ExactFrom_SkipFull(_, _)
ExactFrom_SkipFull(mat, r) ==
    IF r > NumTests(mat) - 1 THEN ReturnNone
    ELSE LET found == FirstCover(mat, Combinations(0, NumTests(mat), r))
         IN  IF found.kind = "list" THEN found ELSE ExactFrom_SkipFull(mat, r + 1)

\* the outer loop from size r on
RECURSIVE ExactFrom(_, _)
ExactFrom(mat, r) ==
    IF r > NumTests(mat) THEN ReturnNone
    ELSE LET found == FirstCover(mat, Combinations(0, NumTests(mat), r))
         IN  IF found.kind = "list" THEN found ELSE ExactFrom(mat, r + 1)

exact_min_set_cover(mat) == ExactFrom(mat, 1)

-----------------------------------------------------------------------------
(* greedy_set_cover *)

\* variant of Gain: every fault the test hits counts, covered or not
Gain_Total(mat, unc, i) ==
    Cardinality({ f \in 0..(NumFaults(mat) - 1) : Cell(mat, i, f) = 1 })

\* gain = sum(1 for f in uncovered if M[i, f] == 1)
Gain(mat, unc, i) == Cardinality({ f \in unc : Cell(mat, i, f) = 1 })

\* variant of ScanBest: gain >= best_gain, so a later test wins a tie
RECURSIVE ScanBest_GE(_, _, _, _, _)
ScanBest_GE(mat, unc, i, best, best_gain) ==
    IF i >= NumTests(mat) THEN [best |-> best, best_gain |-> best_gain]
    ELSE IF Gain(mat, unc, i) >= best_gain
         THEN ScanBest_GE(mat, unc, i + 1, i, Gain(mat, unc, i))
         ELSE ScanBest_GE(mat, unc, i + 1, best, best_gain)

\* the for loop of lines 208-212 from test i on; best = -1 stands for None
RECURSIVE ScanBest(_, _, _, _, _)
ScanBest(mat, unc, i, best, best_gain) ==
    IF i >= NumTests(mat) THEN [best |-> best, best_gain |-> best_gain]
    ELSE IF Gain(mat, unc, i) > best_gain
         THEN ScanBest(mat, unc, i + 1, i, Gain(mat, unc, i))
         ELSE ScanBest(mat, unc, i + 1, best, best_gain)

BestTest(mat, unc) == ScanBest(mat, unc, 0, -1, 0)

\* variant of Newly: the filter on M[best, f] is lost
Newly_All(mat, unc, best) == unc

\* newly = {f for f in uncovered if M[best, f] == 1}
Newly(mat, unc, best) == { f \in unc : Cell(mat, best, f) = 1 }

\* variant of RoundOutcome: the tests chosen so far are returned when no
\* test covers a remaining fault
RoundOutcome_Partial(mat, unc, sel) ==
    LET b == BestTest(mat, unc) IN
    IF b.best = -1 \/ b.best_gain = 0
    THEN [returns |-> TRUE, value |-> ReturnList(sel),
          uncovered |-> unc, chosen |-> sel]
    ELSE [returns |-> FALSE, value |-> NotRun,
          uncovered |-> unc \ Newly(mat, unc, b.best),
          chosen |-> Append(sel, b.best)]

\* one pass through the body of the while loop, lines 205-219: either the
\* function returns None, or a test is appended and its faults removed
RoundOutcome(mat, unc, sel) ==
    LET b == BestTest(mat, unc) IN
    IF b.best = -1 \/ b.best_gain = 0
    THEN [returns |-> TRUE, value |-> ReturnNone,
          uncovered |-> unc, chosen |-> sel]
    ELSE [returns |-> FALSE, value |-> NotRun,
          uncovered |-> unc \ Newly(mat, unc, b.best),
          chosen |-> Append(sel, b.best)]

\* the whole function: the while loop from a given uncovered set and list
RECURSIVE GreedyLoop(_, _, _)
GreedyLoop(mat, unc, sel) ==
    IF unc = {} THEN ReturnList(sel)
    ELSE LET o == RoundOutcome(mat, unc, sel) IN
         IF o.returns THEN o.value
         ELSE GreedyLoop(mat, o.uncovered, o.chosen)

greedy_set_cover(mat) == GreedyLoop(mat, 0..(NumFaults(mat) - 1), <<>>)

-----------------------------------------------------------------------------
(* The set-cover solvers as a state machine over one matrix: the exact     *)
(* search is one step, the greedy loop one step per round.                 *)

Shapes ==
    { sh \in (1..MaxT) \X (1..MaxM) : sh[1] * sh[2] <= MaxCells }

\* the matrices read_fault_coverage can build: t >= 1 rows of m >= 1 bits
Matrices == UNION { [1..sh[1] -> [1..sh[2] -> {0, 1}]] : sh \in Shapes }

SolverIdle ==
    /\ original_expression = <<>>
    /\ expression = <<>>
    /\ variables = <<>>
    /\ truth_table = <<>>
    /\ mcdc_pairs = <<>>
    /\ op = "__init__"
    /\ ret = <<>>
    /\ gen_calls = 0

CoverInit ==
    /\ M \in Matrices
    /\ exact_ret = NotRun
    /\ pc = "idle"
    /\ uncovered = {}
    /\ chosen = <<>>
    /\ greedy_ret = NotRun
    /\ SolverIdle
    /\ ReportIdle
    /\ ModeIdle
    /\ ReadIdle

ExactMinSetCover ==
    /\ exact_ret = NotRun
    /\ exact_ret' = exact_min_set_cover(M)
    /\ UNCHANGED <<M, pc, uncovered, chosen, greedy_ret>>
    /\ UNCHANGED <<solverVars, reportVars, modeVars, readVars>>

\* lines 200-202
GreedyEnter ==
    /\ pc = "idle"
    /\ pc' = "loop"
    /\ uncovered' = 0..(NumFaults(M) - 1)
    /\ chosen' = <<>>
    /\ UNCHANGED <<M, exact_ret, greedy_ret>>
    /\ UNCHANGED <<solverVars, reportVars, modeVars, readVars>>

\* variant of GreedyRound that clears the faults just covered from the
\* matrix itself instead of tracking them in the local set only
GreedyRound_Destructive ==
    /\ pc = "loop"
    /\ uncovered # {}
    /\ LET o == RoundOutcome(M, uncovered, chosen) IN
       IF o.returns
       THEN /\ greedy_ret' = o.value
            /\ pc' = "done"
            /\ UNCHANGED <<M, uncovered, chosen>>
       ELSE /\ chosen' = o.chosen
            /\ uncovered' = o.uncovered
            /\ M' = [i \in DOMAIN M |->
                        [f \in DOMAIN M[i] |->
                            IF (f - 1) \in o.uncovered THEN M[i][f] ELSE 0]]
            /\ UNCHANGED <<pc, greedy_ret>>
    /\ UNCHANGED exact_ret
    /\ UNCHANGED <<solverVars, reportVars, modeVars, readVars>>

\* one pass through the body of the while loop, lines 205-219
GreedyRound ==
    /\ pc = "loop"
    /\ uncovered # {}
    /\ LET o == RoundOutcome(M, uncovered, chosen) IN
       IF o.returns
       THEN /\ greedy_ret' = o.value
            /\ pc' = "done"
            /\ UNCHANGED <<uncovered, chosen>>
       ELSE /\ chosen' = o.chosen
            /\ uncovered' = o.uncovered
            /\ UNCHANGED <<pc, greedy_ret>>
    /\ UNCHANGED <<M, exact_ret>>
    /\ UNCHANGED <<solverVars, reportVars, modeVars, readVars>>

\* the loop condition fails: line 221
GreedyReturn ==
    /\ pc = "loop"
    /\ uncovered = {}
    /\ greedy_ret' = ReturnList(chosen)
    /\ pc' = "done"
    /\ UNCHANGED <<M, exact_ret, uncovered, chosen>>
    /\ UNCHANGED <<solverVars, reportVars, modeVars, readVars>>

CoverNext ==
    \/ ExactMinSetCover
    \/ GreedyEnter
    \/ GreedyRound
    \/ GreedyReturn

CoverSpec == CoverInit /\ [][CoverNext]_vars

\* a call of greedy_set_cover that has entered its loop keeps running
CoverFairSpec ==
    /\ CoverInit
    /\ [][CoverNext]_vars
    /\ WF_vars(GreedyRound)
    /\ WF_vars(GreedyReturn)

-----------------------------------------------------------------------------
(* Properties of the MC/DC solver, checked under Spec. *)

NumVars == Len(variables)

\* the number of entries of list equal to e
Count(list, e) == Cardinality({ k \in DOMAIN list : list[k] = e })

\* C1: generate_truth_table is idempotent: after k >= 1 calls on one solver
\* the table is the one a single call leaves, exactly 2^n rows numbered
\* 1..2^n in order, each number once, and that table is what the call returns.
C1_GenerateIdempotent ==
    gen_calls >= 1 =>
        /\ Len(truth_table) = Pow2(NumVars)
        /\ \A k \in DOMAIN truth_table : truth_table[k].test_num = k
        /\ \A n \in 1..Pow2(NumVars) :
               Cardinality({ k \in DOMAIN truth_table :
                               truth_table[k].test_num = n }) = 1
        /\ op = "generate_truth_table" => ret = truth_table

\* C2: one generate_truth_table call on a fresh solver returns exactly 2^n
\* rows, numbered 1..2^n in row order, whose assignments are total over the
\* variable list and pairwise distinct.
C2_FreshTable ==
    (op = "generate_truth_table" /\ gen_calls = 1) =>
        /\ Len(ret) = Pow2(NumVars)
        /\ ret = truth_table
        /\ \A k \in DOMAIN ret :
              /\ ret[k].test_num = k
              /\ DOMAIN ret[k].vals = Range(variables)
              /\ \A v \in Range(variables) : ret[k].vals[v] \in BOOLEAN
        /\ \A j, k \in DOMAIN ret : j # k => ret[j].vals # ret[k].vals

\* a fresh solver of at least two variables has just returned its table
C2_Witness ==
    /\ op = "generate_truth_table"
    /\ gen_calls = 1
    /\ NumVars >= 2
    /\ Len(ret) = Pow2(NumVars)

\* C3: rows are in lexicographic order, first variable most significant: the
\* row numbered k gives the variable at sorted position p (0-based, of n)
\* the bit of weight 2^(n-1-p) of k-1, false = 0 and true = 1.
C3_RowOrder ==
    \A k \in DOMAIN truth_table : \A p \in 0..(NumVars - 1) :
        truth_table[k].vals[variables[p + 1]]
            = (((truth_table[k].test_num - 1) \div Pow2(NumVars - 1 - p)) % 2 = 1)

\* a table of three or more variables whose second row flips only the last
C3_Witness ==
    /\ gen_calls = 1
    /\ NumVars >= 3
    /\ truth_table[2].vals[variables[NumVars]] = TRUE
    /\ truth_table[2].vals[variables[1]] = FALSE
    /\ truth_table[Pow2(NumVars - 1) + 1].vals[variables[1]] = TRUE
    /\ truth_table[Pow2(NumVars - 1) + 1].vals[variables[NumVars]] = FALSE

\* the three conditions of an independence pair of rows r1, r2 for v
IndependenceCondition(r1, r2, v) ==
    /\ \A w \in Range(variables) \ {v} : r1.vals[w] = r2.vals[w]
    /\ r1.vals[v] # r2.vals[v]
    /\ r1.result # r2.result

\* the pairs of row positions i < j of the table that qualify for v
QualifyingRowPairs(v) ==
    { q \in (DOMAIN truth_table) \X (DOMAIN truth_table) :
        q[1] < q[2] /\ IndependenceCondition(truth_table[q[1]], truth_table[q[2]], v) }

\* the entry find_mcdc_pairs stores for the rows at positions q[1] < q[2]
EntryOf(q) == <<truth_table[q[1]].test_num, truth_table[q[2]].test_num>>

\* C4: find_mcdc_pairs is sound and complete: when it returns, for every
\* variable v and every two distinct rows the pair of their test numbers is
\* in v's list iff the rows agree on every other variable, differ on v and
\* differ in result; every qualifying pair of rows is retained exactly once
\* (the list has one entry per qualifying pair, not only the first), and on
\* a table generated once no entry occurs twice.
C4_PairsSoundComplete ==
    op = "find_mcdc_pairs" =>
        /\ DOMAIN mcdc_pairs = Range(variables)
        /\ \A v \in Range(variables) :
              /\ \A i, j \in DOMAIN truth_table :
                    i < j =>
                      ( (\E k \in DOMAIN mcdc_pairs[v] :
                            mcdc_pairs[v][k] = EntryOf(<<i, j>>))
                        <=> IndependenceCondition(truth_table[i], truth_table[j], v) )
              /\ Len(mcdc_pairs[v]) = Cardinality(QualifyingRowPairs(v))
              /\ \A e \in Range(mcdc_pairs[v]) :
                    Count(mcdc_pairs[v], e)
                      = Cardinality({ q \in QualifyingRowPairs(v) : EntryOf(q) = e })
              /\ gen_calls = 1 =>
                    \A e \in Range(mcdc_pairs[v]) : Count(mcdc_pairs[v], e) = 1

\* find_mcdc_pairs returned, on a table generated once, several pairs for
\* one variable and none for another
C4_Witness ==
    /\ op = "find_mcdc_pairs"
    /\ gen_calls = 1
    /\ \E v \in Range(variables) : Len(mcdc_pairs[v]) >= 2
    /\ \E w \in Range(variables) : mcdc_pairs[w] = <<>>

\* C5: in every state reachable by generate_truth_table, find_mcdc_pairs
\* and get_minimal_test_suite calls, every stored independence pair (i, j)
\* satisfies 1 <= i < j <= 2^n.
C5_PairsOrdered ==
    \A v \in DOMAIN mcdc_pairs : \A k \in DOMAIN mcdc_pairs[v] :
        /\ 1 <= mcdc_pairs[v][k][1]
        /\ mcdc_pairs[v][k][1] < mcdc_pairs[v][k][2]
        /\ mcdc_pairs[v][k][2] <= Pow2(NumVars)

-----------------------------------------------------------------------------
(* Properties of the set-cover solvers, checked under CoverSpec. *)

TestIndices == 0..(NumTests(M) - 1)

FaultIndices == 0..(NumFaults(M) - 1)

\* the tests of S together hit every fault: their union is all ones
CoversAll(S) == \A f \in FaultIndices : \E i \in S : Cell(M, i, f) = 1

\* some fault is hit by no test
SomeColumnZero == \E f \in FaultIndices : \A i \in TestIndices : Cell(M, i, f) = 0

\* the elements of a set of numbers in ascending order
RECURSIVE Ascending(_)
Ascending(S) ==
    IF S = {} THEN <<>>
    ELSE LET least == CHOOSE x \in S : \A y \in S : x <= y
         IN  <<least>> \o Ascending(S \ {least})

\* s1 comes strictly before s2 in lexicographic order (equal lengths)
LexLess(s1, s2) ==
    \E k \in DOMAIN s1 :
        /\ s1[k] < s2[k]
        /\ \A j \in 1..(k - 1) : s1[j] = s2[j]

\* the number of uncovered faults of unc that test i hits
HitCount(i, unc) == Cardinality({ f \in unc : M[i + 1][f + 1] = 1 })

\* C6: exact_min_set_cover returns a minimum-cardinality cover: when it
\* returns a combination of size r, no set of fewer than r tests covers all
\* faults, and the combination is the lexicographically first (ascending
\* index tuple) of the covering sets of size r.
C6_ExactMinimumFirst ==
    exact_ret.kind = "list" =>
        LET c == exact_ret.tests
            r == Len(exact_ret.tests)
        IN  /\ r >= 1
            /\ c = Ascending(Range(c))
            /\ Range(c) \subseteq TestIndices
            /\ CoversAll(Range(c))
            /\ \A S \in SUBSET TestIndices :
                  /\ Cardinality(S) < r => ~CoversAll(S)
                  /\ (Cardinality(S) = r /\ CoversAll(S) /\ S # Range(c))
                        => LexLess(c, Ascending(S))

\* the exact search returned two tests although another pair, later in the
\* enumeration, covers as well, and the pair returned is not the first pair
C6_Witness ==
    /\ exact_ret.kind = "list"
    /\ Len(exact_ret.tests) = 2
    /\ exact_ret.tests # <<0, 1>>
    /\ \E S \in SUBSET TestIndices :
          Cardinality(S) = 2 /\ CoversAll(S) /\ S # Range(exact_ret.tests)

\* C7: for every matrix with t >= 1 tests and m >= 1 faults,
\* exact_min_set_cover returns None iff some fault column is entirely zero;
\* otherwise it returns tests whose union is all ones.
C7_ExactInfeasibleIffZeroColumn ==
    exact_ret # NotRun =>
        /\ NumTests(M) >= 1 /\ NumFaults(M) >= 1
        /\ (exact_ret.kind = "None") <=> SomeColumnZero
        /\ exact_ret.kind # "None" =>
              /\ exact_ret.kind = "list"
              /\ CoversAll(Range(exact_ret.tests))

\* the exact search returned None for a matrix of several tests, some of
\* which hit a fault
C7_Witness ==
    /\ exact_ret.kind = "None"
    /\ NumTests(M) >= 2
    /\ \E i \in TestIndices : \E f \in FaultIndices : Cell(M, i, f) = 1

\* C8: the greedy result is never smaller than the exact result when both
\* are feasible, and each result that is a list has a union of all ones.
C8_GreedyNotBelowExact ==
    /\ (exact_ret.kind = "list" /\ greedy_ret.kind = "list")
          => Len(greedy_ret.tests) >= Len(exact_ret.tests)
    /\ exact_ret.kind = "list"
          => \A f \in FaultIndices :
                \E k \in DOMAIN exact_ret.tests : M[exact_ret.tests[k] + 1][f + 1] = 1
    /\ greedy_ret.kind = "list"
          => \A f \in FaultIndices :
                \E k \in DOMAIN greedy_ret.tests : M[greedy_ret.tests[k] + 1][f + 1] = 1

\* both solvers returned a cover and the greedy one is strictly larger
C8_Witness ==
    /\ exact_ret.kind = "list"
    /\ greedy_ret.kind = "list"
    /\ Len(greedy_ret.tests) > Len(exact_ret.tests)

\* C9: in every round of greedy_set_cover the test appended hits the most
\* currently-uncovered faults of all tests, is the lowest-indexed of the
\* tests that do, and the uncovered set after the round is the previous one
\* minus exactly the faults that test hits.
C9_GreedyRoundChoice ==
    [][ (pc = "loop" /\ chosen' # chosen) =>
          LET b == chosen'[Len(chosen')] IN
          /\ chosen' = Append(chosen, b)
          /\ b \in TestIndices
          /\ \A i \in TestIndices : HitCount(i, uncovered) <= HitCount(b, uncovered)
          /\ \A i \in TestIndices :
                i < b => HitCount(i, uncovered) < HitCount(b, uncovered)
          /\ uncovered' = uncovered \ { f \in FaultIndices : M[b + 1][f + 1] = 1 }
      ]_vars

\* two rounds ran: the first took test 1 over test 0, the second took test 0
\* although test 2, an identical row, hit as many uncovered faults
C9_Witness ==
    /\ pc = "loop"
    /\ NumTests(M) = 3
    /\ chosen = <<1, 0>>
    /\ M[1] = M[3]

\* C10: greedy_set_cover returns None, never a partial list, exactly when
\* some fault column is entirely zero; in every other case it returns a
\* list whose tests together cover all m faults.
C10_GreedyInfeasibleIffZeroColumn ==
    pc = "done" =>
        /\ greedy_ret # NotRun
        /\ (greedy_ret.kind = "None") <=> SomeColumnZero
        /\ greedy_ret.kind # "None" =>
              /\ greedy_ret.kind = "list"
              /\ greedy_ret.tests = chosen
              /\ CoversAll(Range(greedy_ret.tests))

\* the greedy loop had chosen tests before it found a fault no test hits,
\* and returned None
C10_Witness ==
    /\ pc = "done"
    /\ greedy_ret.kind = "None"
    /\ chosen # <<>>

-----------------------------------------------------------------------------
(* mode_min_tests_cover_faults: the matrix has been read, the threshold is *)
(* asked for, and one of the two solvers is run on the matrix.             *)

MaxThreshold == 4

\* the routing test with the boundary on the wrong side
UseExact_Strict(t, thr) == t < thr

\* line 238
UseExact(t, thr) == t <= thr

\* lines 238-245: which solver is called, and what each call returned
ModeSolve(mat, thr) ==
    IF UseExact(NumTests(mat), thr)
    THEN LET c == exact_min_set_cover(mat) IN
         [method |-> "EXACT", chosen |-> c, exact |-> c, greedy |-> NotRun]
    ELSE LET c == greedy_set_cover(mat) IN
         [method |-> "GREEDY", chosen |-> c, exact |-> NotRun, greedy |-> c]

ModeInit ==
    /\ M \in Matrices
    /\ exact_ret = NotRun
    /\ pc = "idle"
    /\ uncovered = {}
    /\ chosen = <<>>
    /\ greedy_ret = NotRun
    /\ SolverIdle
    /\ ReportIdle
    /\ ModeIdle
    /\ ReadIdle

\* the threshold is any integer get_int lets through: at least 1
ModeMinTestsCoverFaults ==
    /\ method = "none"
    /\ \E thr \in 1..MaxThreshold :
          LET r == ModeSolve(M, thr) IN
          /\ threshold' = thr
          /\ method' = r.method
          /\ mode_chosen' = r.chosen
          /\ exact_ret' = r.exact
          /\ greedy_ret' = r.greedy
    /\ UNCHANGED <<M, pc, uncovered, chosen>>
    /\ UNCHANGED <<solverVars, reportVars, readVars>>

ModeNext == ModeMinTestsCoverFaults

ModeSpec == ModeInit /\ [][ModeNext]_vars

-----------------------------------------------------------------------------
(* Properties of mode_min_tests_cover_faults, checked under ModeSpec. *)

ExactRan == exact_ret # NotRun

GreedyRan == greedy_ret # NotRun

\* C11: in mode_min_tests_cover_faults exactly one solver runs on the
\* matrix: the exact search runs only when the number of tests t is at most
\* the threshold, the greedy solver only when t exceeds it, and what the
\* exact search returned (None included) is the result as it stands, with
\* no greedy run after it.
C11_OneSolverRouted ==
    IF method = "none"
    THEN ~ExactRan /\ ~GreedyRan
    ELSE /\ ExactRan # GreedyRan
         /\ ExactRan <=> NumTests(M) <= threshold
         /\ GreedyRan <=> NumTests(M) > threshold
         /\ ExactRan => /\ method = "EXACT"
                        /\ mode_chosen = exact_ret
                        /\ exact_ret = exact_min_set_cover(M)
         /\ GreedyRan => /\ method = "GREEDY"
                         /\ mode_chosen = greedy_ret
                         /\ greedy_ret = greedy_set_cover(M)

\* the exact search ran at t = threshold, found no cover, and the greedy
\* solver was not run
C11_Witness ==
    /\ method = "EXACT"
    /\ NumTests(M) = threshold
    /\ NumTests(M) >= 2
    /\ mode_chosen = ReturnNone
    /\ ~GreedyRan

-----------------------------------------------------------------------------
(* Further properties of the MC/DC solver, checked under Spec.             *)
(*                                                                         *)
(* The decision grammar of the specification,                              *)
(*     D ::= D || D  |  D && D  |  ! D  |  ( D )  |  variable              *)
(* with ! binding tightest, then &&, then ||, read by splitting the text   *)
(* at its outermost operator of lowest precedence.                         *)

\* the cap on the number of variables a caller has configured
VariableCap == 3

Malformed == "malformed"

\* the nesting depth of parentheses before position k
Depth(s, k) ==
    Cardinality({ i \in 1..(k - 1) : s[i] = "(" })
      - Cardinality({ i \in 1..(k - 1) : s[i] = ")" })

\* the positions of operator tok outside every pair of parentheses
TopLevel(s, tok) == { k \in DOMAIN s : s[k] = tok /\ Depth(s, k) = 0 }

LastOf(S) == CHOOSE k \in S : \A j \in S : j <= k

RefOr(l, r) ==
    IF l = Malformed \/ r = Malformed THEN Malformed
    ELSE PyBool(Truthy(l) \/ Truthy(r))

RefAnd(l, r) ==
    IF l = Malformed \/ r = Malformed THEN Malformed
    ELSE PyBool(Truthy(l) /\ Truthy(r))

RefNot(x) == IF x = Malformed THEN Malformed ELSE PyBool(~Truthy(x))

\* the value of the expression tree of decision text s under assignment
\* env, or Malformed when s is not a decision of the grammar
RECURSIVE DecisionValue(_, _)
DecisionValue(s, env) ==
    IF s = <<>> THEN Malformed
    ELSE IF TopLevel(s, "||") # {}
    THEN Strict(LastOf(TopLevel(s, "||")), LAMBDA k :
         Strict(DecisionValue(SubSeq(s, 1, k - 1), env), LAMBDA l :
         Strict(DecisionValue(SubSeq(s, k + 1, Len(s)), env), LAMBDA r :
             RefOr(l, r))))
    ELSE IF TopLevel(s, "&&") # {}
    THEN Strict(LastOf(TopLevel(s, "&&")), LAMBDA k :
         Strict(DecisionValue(SubSeq(s, 1, k - 1), env), LAMBDA l :
         Strict(DecisionValue(SubSeq(s, k + 1, Len(s)), env), LAMBDA r :
             RefAnd(l, r))))
    ELSE IF s[1] = "!"
    THEN Strict(DecisionValue(Tail(s), env), LAMBDA x : RefNot(x))
    ELSE IF s[1] = "(" /\ s[Len(s)] = ")"
    THEN DecisionValue(SubSeq(s, 2, Len(s) - 1), env)
    ELSE IF Len(s) = 1 /\ s[1] \in Range(Letters) /\ s[1] \in DOMAIN env
    THEN PyBool(env[s[1]])
    ELSE Malformed

WellFormed(s) ==
    DecisionValue(s, [l \in Range(Letters) |-> FALSE]) # Malformed

\* C12: truth-table generation fails with a resource-guard error and
\* produces no rows whenever the number of variables exceeds the configured
\* cap: a solver with more variables than the cap never holds a row.
C12_VariableCapGuard ==
    NumVars > VariableCap => truth_table = <<>>

\* C13: a malformed decision (unbalanced parentheses, unsupported operator,
\* multi-character identifier, empty operand) is rejected before any
\* evaluation and leaves no partial result: no row and no pair list is
\* stored for it, and no stored row carries a failed evaluation.
C13_MalformedRejected ==
    /\ ~WellFormed(original_expression) =>
           truth_table = <<>> /\ DOMAIN mcdc_pairs = {}
    /\ \A k \in DOMAIN truth_table : truth_table[k].result # PyNone

\* the variables with at least one independence pair of rows in the table
CoveredVariables ==
    { v \in Range(variables) : QualifyingRowPairs(v) # {} }

\* C14: get_minimal_test_suite returns a subset of the row indices 1..2^n
\* whose size is at most twice the number of variables that have at least
\* one independence pair.
C14_SuiteBounds ==
    op = "get_minimal_test_suite" =>
        /\ ret \subseteq 1..Pow2(NumVars)
        /\ Cardinality(ret) <= 2 * Cardinality(CoveredVariables)

\* two covered variables whose first pairs share a row, beside a variable
\* with several pairs: three tests for two variables
C14_Witness ==
    /\ op = "get_minimal_test_suite"
    /\ Cardinality(CoveredVariables) = 2
    /\ Cardinality(ret) = 3
    /\ \E v \in CoveredVariables : Len(mcdc_pairs[v]) >= 2

\* the first qualifying pair of row positions for v in enumeration order:
\* smallest first position, then smallest second position
FirstQualifying(v) ==
    CHOOSE q \in QualifyingRowPairs(v) :
        \A q2 \in QualifyingRowPairs(v) :
            q[1] < q2[1] \/ (q[1] = q2[1] /\ q[2] <= q2[2])

FirstPairTests(v) ==
    { truth_table[FirstQualifying(v)[1]].test_num,
      truth_table[FirstQualifying(v)[2]].test_num }

\* C15: the suite get_minimal_test_suite returns is exactly the union, over
\* the variables with a non-empty pair list, of the two row indices of the
\* variable's first pair in table enumeration order, which is the entry of
\* its list with the smallest first index; so the suite holds a complete
\* independence pair for every covered variable.
C15_SuiteIsFirstPairs ==
    op = "get_minimal_test_suite" =>
        /\ \A v \in Range(variables) :
              mcdc_pairs[v] # <<>> <=> v \in CoveredVariables
        /\ ret = UNION { FirstPairTests(v) : v \in CoveredVariables }
        /\ \A v \in CoveredVariables :
              /\ {mcdc_pairs[v][1][1], mcdc_pairs[v][1][2]} = FirstPairTests(v)
              /\ \A k \in DOMAIN mcdc_pairs[v] :
                    mcdc_pairs[v][1][1] <= mcdc_pairs[v][k][1]
              /\ \E q \in QualifyingRowPairs(v) :
                    {EntryOf(q)[1], EntryOf(q)[2]} \subseteq ret

\* a suite taken from lists with several entries, one variable uncovered
C15_Witness ==
    /\ op = "get_minimal_test_suite"
    /\ \E v \in Range(variables) : Len(mcdc_pairs[v]) >= 2
    /\ \E v \in Range(variables) : mcdc_pairs[v] = <<>>
    /\ ret # {}

Decision_AorB == <<"a", "||", "b">>

Decision_AandAorB == <<"a", "&&", "(", "a", "||", "b", ")">>

\* the calls that print the analysis of the pairs
Reporting == {"solve", "print_mcdc_analysis"}

\* what solve and print_mcdc_analysis report when they run to their end:
\* per variable the pairs or the notice, by whether the list is empty, and
\* for solve the warning iff some list is empty; they end in an exception
\* only for texts outside the grammar
ReportOfCompletedSolve ==
    /\ (op \in Reporting /\ ~raised) =>
          /\ DOMAIN out_covered = Range(variables)
          /\ \A v \in Range(variables) :
                /\ out_covered[v] <=> mcdc_pairs[v] # <<>>
                /\ out_covered[v] <=> v \in CoveredVariables
    /\ (op = "solve" /\ ~raised) =>
          (out_warning <=> \E v \in Range(variables) : mcdc_pairs[v] = <<>>)
    /\ (op \in Reporting /\ raised) => ~WellFormed(original_expression)

\* C16: solve and print_mcdc_analysis report a variable as covered iff its
\* independence-pair list is non-empty, and solve prints the
\* missing-coverage warning exactly when some variable's list is empty; for
\* a || b both a and b have a pair and no warning is printed, for
\* a && (a || b) b has no pair, is reported as not covered, and the warning
\* is printed.
C16_CoverageReported ==
    /\ op \in Reporting =>
          \A v \in DOMAIN mcdc_pairs :
              /\ v \in DOMAIN out_covered
              /\ out_covered[v] <=> mcdc_pairs[v] # <<>>
    /\ op = "solve" =>
          (out_warning <=> \E v \in DOMAIN mcdc_pairs : mcdc_pairs[v] = <<>>)
    /\ (original_expression = Decision_AorB /\ DOMAIN mcdc_pairs # {}) =>
          mcdc_pairs["a"] # <<>> /\ mcdc_pairs["b"] # <<>>
    /\ (original_expression = Decision_AorB /\ op \in Reporting) =>
          ~raised /\ out_covered["a"] /\ out_covered["b"] /\ ~out_warning
    /\ (original_expression = Decision_AandAorB /\ DOMAIN mcdc_pairs # {}) =>
          mcdc_pairs["a"] # <<>> /\ mcdc_pairs["b"] = <<>>
    /\ (original_expression = Decision_AandAorB /\ op \in Reporting) =>
          ~raised /\ out_covered["a"] /\ ~out_covered["b"]
    /\ (original_expression = Decision_AandAorB /\ op = "solve") =>
          out_warning

-----------------------------------------------------------------------------
(* A decision and a coverage matrix side by side: the solver's methods and *)
(* the two set-cover functions interleaved, each on its own input.         *)

FrameDim == 2

\* the two decisions the specification works through
FrameDecisions == {Decision_AorB, Decision_AandAorB}

FrameMatrices ==
    UNION { [1..t -> [1..m -> {0, 1}]] : t \in 1..FrameDim, m \in 1..FrameDim }

FrameInit ==
    /\ original_expression \in FrameDecisions
    /\ expression = _normalize_expression(original_expression)
    /\ variables = _extract_variables(expression)
    /\ truth_table = <<>>
    /\ mcdc_pairs = <<>>
    /\ op = "__init__"
    /\ ret = <<>>
    /\ gen_calls = 0
    /\ ReportIdle
    /\ M \in FrameMatrices
    /\ exact_ret = NotRun
    /\ pc = "idle"
    /\ uncovered = {}
    /\ chosen = <<>>
    /\ greedy_ret = NotRun
    /\ ModeIdle
    /\ ReadIdle

FrameNext ==
    \/ Next
    \/ CoverNext

FrameSpec == FrameInit /\ [][FrameNext]_vars

\* C17: the operations do not mutate their inputs: exact_min_set_cover and
\* greedy_set_cover leave the coverage matrix M as it was, and
\* generate_truth_table, find_mcdc_pairs and get_minimal_test_suite (and
\* solve, which calls them) leave the decision text, its normalized form
\* and the variable list as they were.
C17_InputsNotMutated ==
    [][ /\ M' = M
        /\ original_expression' = original_expression
        /\ expression' = expression
        /\ variables' = variables ]_vars

\* both set-cover functions have run on M and returned a cover, and the
\* solver has generated, paired and extracted a suite
C17_Witness ==
    /\ exact_ret.kind = "list"
    /\ pc = "done"
    /\ greedy_ret.kind = "list"
    /\ Len(greedy_ret.tests) >= 2
    /\ gen_calls >= 2
    /\ op = "get_minimal_test_suite"
    /\ ret # {}

-----------------------------------------------------------------------------
(* parse_binary_vector and read_fault_coverage.  A line of input is a      *)
(* sequence of characters; a parsed vector is a sequence of integers.      *)

MaxRaw == 3

MaxReadT == 2

MaxTyped == 1

\* two decimal digits of another script, each one character of a line,
\* written by their code points: ARABIC-INDIC DIGIT ZERO and DIGIT ONE
ArabicZero == "U+0660"

ArabicOne == "U+0661"

\* the characters a line is made of: the binary digits, another digit, the
\* two digits of another script, a letter, the blank, the comma, the tab,
\* another whitespace character (form feed), the two signs and the
\* underscore
Chars == {"0", "1", "2", ArabicZero, ArabicOne, "x",
          " ", ",", "\t", "\f", "+", "-", "_"}

\* what str.strip() removes and str.split() cuts at
Whitespace == {" ", "\t", "\f"}

\* the characters int() reads as decimal digits
Digits == {"0", "1", "2", ArabicZero, ArabicOne}

\* the characters of the string "01" of line 133
BinaryDigits == {"0", "1"}

Lines == SeqsUpTo(Chars, MaxRaw)

\* the lines the docstring and the prompt give, and lines with the other
\* separators, signs, underscores, leading zeros and values that are no bit
ExampleLines == {
    <<"1", " ", "0", " ", "1", " ", "1">>,
    <<"1", "0", "1", "1">>,
    <<"1", ",", "0", ",", "1", ",", "1">>,
    <<"1", "0">>,
    <<"1", " ", "0">>,
    <<"0", ",", "1">>,
    <<"1", "\t", "0">>,
    <<"1", "\f", "0">>,
    <<"1", ",", " ", "1">>,
    <<" ", "0", "1", " ">>,
    <<"1", "0", "1">>,
    <<"0", " ", "1", " ", "1">>,
    <<"1", "\f", "1", "1">>,
    <<"+", "1">>,
    <<"-", "0">>,
    <<"-", "1">>,
    <<"0", "_", "1">>,
    <<"+", "1", " ", "-", "0">>,
    <<"0", "1", " ", "1">>,
    <<"1", " ", "2">>,
    <<"1", " ", "x">>,
    <<"1", "2">>,
    <<ArabicOne, ArabicOne>>,
    <<"1", ArabicOne>>,
    <<ArabicOne, " ", ArabicZero>>,
    <<ArabicZero, ArabicOne, ",", "1">> }

\* the lines typed at the prompt of line 165
TypedLines == SeqsUpTo(Chars, MaxTyped) \cup ExampleLines

\* str.strip()
RECURSIVE Strip(_)
Strip(s) ==
    IF s = <<>> THEN s
    ELSE IF Head(s) \in Whitespace THEN Strip(Tail(s))
    ELSE IF s[Len(s)] \in Whitespace THEN Strip(SubSeq(s, 1, Len(s) - 1))
    ELSE s

\* s.replace(",", " ")
ReplaceCommas(s) == [i \in DOMAIN s |-> IF s[i] = "," THEN " " ELSE s[i]]

\* s.replace("\t", " ")
ReplaceTabs(s) == [i \in DOMAIN s |-> IF s[i] = "\t" THEN " " ELSE s[i]]

\* s.replace(" ", "")
RemoveSpaces(s) == SelectSeq(s, LAMBDA c : c # " ")

\* the length of the run of non-whitespace characters s starts with
RunLength(s) ==
    CHOOSE n \in 1..Len(s) :
        /\ \A i \in 1..n : s[i] \notin Whitespace
        /\ n = Len(s) \/ s[n + 1] \in Whitespace

\* s.split()
RECURSIVE Split(_)
Split(s) ==
    IF s = <<>> THEN <<>>
    ELSE IF Head(s) \in Whitespace THEN Split(Tail(s))
    ELSE <<SubSeq(s, 1, RunLength(s))>>
           \o Split(SubSeq(s, RunLength(s) + 1, Len(s)))

\* the value int() gives a digit
DigitValue(c) ==
    IF c \in {"0", ArabicZero} THEN 0
    ELSE IF c \in {"1", ArabicOne} THEN 1
    ELSE 2

RECURSIVE DecimalValue(_)
DecimalValue(x) ==
    IF x = <<>> THEN 0
    ELSE 10 * DecimalValue(SubSeq(x, 1, Len(x) - 1)) + DigitValue(x[Len(x)])

\* int(x) raised ValueError
IntError == [ok |-> FALSE, val |-> 0]

IntValue(v) == [ok |-> TRUE, val |-> v]

\* the digits of an integer literal: digits with single underscores between
\* them
IsLiteralBody(x) ==
    /\ x # <<>>
    /\ \A i \in DOMAIN x : x[i] \in Digits \cup {"_"}
    /\ x[1] # "_"
    /\ x[Len(x)] # "_"
    /\ \A i \in 1..(Len(x) - 1) : ~(x[i] = "_" /\ x[i + 1] = "_")

\* int(x) for a non-empty x without whitespace: an optional sign, then the
\* digits
PyInt(x) ==
    LET signed == x[1] \in {"+", "-"}
        body   == IF signed THEN Tail(x) ELSE x
        value  == DecimalValue(SelectSeq(body, LAMBDA c : c # "_"))
    IN  IF ~IsLiteralBody(body) THEN IntError
        ELSE IF x[1] = "-" THEN IntValue(0 - value)
        ELSE IntValue(value)

\* variant without the check of line 141
parse_binary_vector_NoValueCheck(line, m) ==
    LET s == ReplaceTabs(ReplaceCommas(Strip(line)))
        compact == RemoveSpaces(s)
        parts == Split(s)
        bits == [i \in DOMAIN parts |-> PyInt(parts[i])]
    IN  IF (\A i \in DOMAIN compact : compact[i] \in BinaryDigits)
           /\ Len(compact) = m
        THEN ParseReturns([i \in DOMAIN compact |-> DigitValue(compact[i])])
        ELSE IF Len(parts) # m THEN ParseRaises
        ELSE IF \E i \in DOMAIN bits : ~bits[i].ok THEN ParseRaises
        ELSE ParseReturns([i \in DOMAIN bits |-> bits[i].val])

\* lines 132-143
parse_binary_vector(line, m) ==
    LET s == ReplaceTabs(ReplaceCommas(Strip(line)))
        compact == RemoveSpaces(s)
        parts == Split(s)
        bits == [i \in DOMAIN parts |-> PyInt(parts[i])]
    IN  IF (\A i \in DOMAIN compact : compact[i] \in BinaryDigits)
           /\ Len(compact) = m
        THEN ParseReturns([i \in DOMAIN compact |-> DigitValue(compact[i])])
        ELSE IF Len(parts) # m THEN ParseRaises
        ELSE IF \E i \in DOMAIN bits : ~bits[i].ok THEN ParseRaises
        ELSE IF \E i \in DOMAIN bits : bits[i].val \notin {0, 1}
             THEN ParseRaises
        ELSE ParseReturns([i \in DOMAIN bits |-> bits[i].val])

\* read_fault_coverage after lines 151-155 (m and t read, no row yet), or
\* parse_binary_vector about to be called on its own with a line and m
ReadInit ==
    /\ \/ /\ fault_count \in 1..MaxRaw
          /\ test_count \in 1..MaxReadT
          /\ rows = <<>>
          /\ raw = <<>>
          /\ outcome = "prompt"
          /\ VectorIdle
       \/ /\ LoopIdle
          /\ vec_s \in Lines
          /\ vec_m \in 1..MaxRaw
          /\ vec_ret = NotParsed
    /\ SolverIdle
    /\ ReportIdle
    /\ CoverIdle
    /\ ModeIdle

\* line 165: raw = input(...).strip()
ReadLine ==
    /\ outcome \in {"prompt", "retry"}
    /\ \E line \in TypedLines : raw' = Strip(line)
    /\ outcome' = "read"
    /\ UNCHANGED <<fault_count, test_count, rows, vec_s, vec_m, vec_ret>>
    /\ UNCHANGED <<solverVars, reportVars, coverVars, modeVars>>

\* lines 166-171, and lines 173-174 after the last test's vector: the
\* vector is appended, or the error is printed and the line asked for again
ParseLine ==
    /\ outcome = "read"
    /\ \E r \in {parse_binary_vector(raw, fault_count)} :
          IF r.kind = "return"
          THEN /\ rows' = Append(rows, r.bits)
               /\ IF Len(rows') = test_count
                  THEN outcome' = "done" /\ M' = rows'
                  ELSE outcome' = "prompt" /\ M' = M
          ELSE /\ outcome' = "retry"
               /\ UNCHANGED <<rows, M>>
    /\ UNCHANGED <<fault_count, test_count, raw, vec_s, vec_m, vec_ret>>
    /\ UNCHANGED <<exact_ret, pc, uncovered, chosen, greedy_ret>>
    /\ UNCHANGED <<solverVars, reportVars, modeVars>>

\* parse_binary_vector(s, m) called on its own
ParseBinaryVector ==
    /\ vec_m > 0
    /\ vec_ret = NotParsed
    /\ vec_ret' = parse_binary_vector(vec_s, vec_m)
    /\ UNCHANGED <<vec_s, vec_m>>
    /\ UNCHANGED <<fault_count, test_count, rows, raw, outcome>>
    /\ UNCHANGED <<solverVars, reportVars, coverVars, modeVars>>

ReadNext ==
    \/ ReadLine
    \/ ParseLine
    \/ ParseBinaryVector

ReadSpec == ReadInit /\ [][ReadNext]_vars

-----------------------------------------------------------------------------
(* Properties of parse_binary_vector and read_fault_coverage, checked      *)
(* under ReadSpec.  A line is read in one of the two formats the function  *)
(* accepts: as binary digits 0 and 1 with blanks, commas and tabs anywhere  *)
(* between them, or as entries set apart by separators, each entry a       *)
(* numeral in the digits of either script.                                 *)

\* the positions of the whitespace a line starts and ends with
Margin(line) ==
    { i \in DOMAIN line :
        \/ \A j \in 1..i : line[j] \in {" ", "\t", "\f"}
        \/ \A j \in i..Len(line) : line[j] \in {" ", "\t", "\f"} }

\* the positions of line that hold a digit when line is read as digits
DigitPositions(line) ==
    { i \in DOMAIN line \ Margin(line) : line[i] \notin {" ", ",", "\t"} }

\* the line is m binary digits
ReadsAsDigits(line, m) ==
    /\ \A i \in DigitPositions(line) : line[i] \in {"0", "1"}
    /\ Cardinality(DigitPositions(line)) = m

\* what sets entries apart
IsSep(c) == c \in {" ", ",", "\t", "\f"}

\* the positions at which an entry of line ends
EntryEnds(line) ==
    { i \in DOMAIN line :
        ~IsSep(line[i]) /\ (i = Len(line) \/ IsSep(line[i + 1])) }

\* the position at which the entry that ends at e starts
EntryStart(line, e) ==
    CHOOSE a \in 1..e :
        /\ \A i \in a..e : ~IsSep(line[i])
        /\ a = 1 \/ IsSep(line[a - 1])

\* the digits of value 0 and of value 1, of either script
Zeros == {"0", "U+0660"}

Ones == {"1", "U+0661"}

\* the entry that ends at e is a numeral of value 0 or 1: an optional sign,
\* then zeros and a last digit 0 or 1 with single underscores between the
\* digits, the last digit 0 after a minus sign
IsBitNumeral(line, e) ==
    LET a == EntryStart(line, e)
        signed == line[a] \in {"+", "-"}
        b == IF signed THEN a + 1 ELSE a
    IN  /\ b <= e
        /\ line[e] \in Zeros \cup Ones
        /\ (line[b] \in Zeros \/ b = e)
        /\ \A i \in b..(e - 1) :
              /\ line[i] \in Zeros \cup {"_"}
              /\ line[i] = "_" => line[i + 1] # "_"
        /\ line[a] = "-" => line[e] \in Zeros

\* the line is m entries, each a numeral of value 0 or 1
ReadsAsEntries(line, m) ==
    /\ Cardinality(EntryEnds(line)) = m
    /\ \A e \in EntryEnds(line) : IsBitNumeral(line, e)

\* the k-th smallest element of P
Kth(P, k) == CHOOSE i \in P : Cardinality({ j \in P : j <= i }) = k

\* the digits of line at the positions P, in order, as integers
BitsAt(line, P) ==
    [k \in 1..Cardinality(P) |->
        IF line[Kth(P, k)] \in Ones THEN 1 ELSE 0]

\* the vector an admissible line stands for
VectorOf(line, m) ==
    IF ReadsAsDigits(line, m) THEN BitsAt(line, DigitPositions(line))
    ELSE BitsAt(line, EntryEnds(line))

Admissible(line, m) == ReadsAsDigits(line, m) \/ ReadsAsEntries(line, m)

IsCoverageVector(v, m) ==
    /\ DOMAIN v = 1..m
    /\ \A f \in 1..m : v[f] \in {0, 1}

\* C18: every coverage vector admitted to the matrix has exactly m entries,
\* each 0 or 1, so the matrix read_fault_coverage returns has t rows of
\* uniform length m: parse_binary_vector raises unless the line reads as m
\* binary digits or as m entries of value 0 or 1, and then it returns
\* exactly the vector the line stands for; read_fault_coverage appends that
\* vector, and after an error asks for the line again with nothing appended.
C18_OnlyBinaryVectorsAdmitted ==
    [][ /\ \A k \in DOMAIN rows' : IsCoverageVector(rows'[k], fault_count)
        /\ outcome' = "done" =>
              /\ M' = rows'
              /\ Len(M') = test_count
              /\ \A i \in DOMAIN M' : IsCoverageVector(M'[i], fault_count)
        /\ outcome' # "done" => M' = <<>>
        /\ outcome' \in {"prompt", "read", "retry"} => Len(rows') < test_count
        /\ outcome # "read" => rows' = rows
        /\ outcome = "read" =>
              IF Admissible(raw, fault_count)
              THEN /\ rows' = Append(rows, VectorOf(raw, fault_count))
                   /\ outcome' \in {"prompt", "done"}
              ELSE /\ rows' = rows
                   /\ outcome' = "retry"
        /\ vec_ret' # vec_ret =>
              IF Admissible(vec_s, vec_m)
              THEN /\ vec_ret' = ParseReturns(VectorOf(vec_s, vec_m))
                   /\ IsCoverageVector(vec_ret'.bits, vec_m)
              ELSE vec_ret' = ParseRaises ]_vars

\* a line has been rejected after a vector was admitted, with a second
\* vector of two or more faults still to come
C18_Witness ==
    /\ outcome = "retry"
    /\ Len(rows) = 1
    /\ test_count = 2
    /\ fault_count >= 2

-----------------------------------------------------------------------------
(* Further properties of the MC/DC solver, checked under Spec. *)

Decision_AorBandC == <<"a", "||", "b", "&&", "c">>

\* C19: evaluation follows the precedence ! over && over ||, parentheses
\* overriding it: for every decision of the grammar over single-letter
\* variables and every row of its table, the stored result is the value of
\* the expression tree of the decision under the row's assignment.
C19_PrecedenceEvaluation ==
    WellFormed(original_expression) =>
        \A k \in DOMAIN truth_table :
            truth_table[k].result
              = DecisionValue(original_expression, truth_table[k].vals)

\* a || b && c has a row with a true, c false and result True, which
\* (a || b) && c would make False
C19_Witness ==
    /\ original_expression = Decision_AorBandC
    /\ Len(truth_table) = Pow2(NumVars)
    /\ \E k \in DOMAIN truth_table :
          /\ truth_table[k].vals["a"]
          /\ ~truth_table[k].vals["c"]
          /\ truth_table[k].result = PyTrue

\* the place of a lowercase letter in the alphabet
LetterRank(l) ==
    CASE l = "a" -> 1
      [] l = "b" -> 2
      [] l = "c" -> 3
      [] l = "d" -> 4

\* the tokens of the text that are one lowercase letter
LetterTokens(text) ==
    { text[i] : i \in { j \in DOMAIN text : text[j] \in {"a", "b", "c", "d"} } }

\* the value column p holds in the row numbered k of a table of n columns
ColumnBit(k, p, n) == ((k - 1) \div Pow2(n - p)) % 2 = 1

\* C20: the variable list of a decision is the sorted, duplicate-free list
\* of the single lowercase letters that occur in it as identifiers, and the
\* same order is the column order of every row (column p of the table is
\* the p-th variable of the list) and the order of the pair analysis, which
\* holds one list per variable of the list.
C20_VariableOrder ==
    /\ \A i, j \in DOMAIN variables :
          i < j => LetterRank(variables[i]) < LetterRank(variables[j])
    /\ Range(variables) = LetterTokens(original_expression)
    /\ \A k \in DOMAIN truth_table :
          /\ DOMAIN truth_table[k].vals = Range(variables)
          /\ \A p \in DOMAIN variables :
                truth_table[k].vals[variables[p]]
                  = ColumnBit(truth_table[k].test_num, p, NumVars)
    /\ DOMAIN mcdc_pairs \in {{}, Range(variables)}
    /\ (op = "solve" /\ ~raised) => DOMAIN out_covered = Range(variables)

\* the letters occur in the text in descending order, and the table and
\* the pair lists have been built
C20_Witness ==
    /\ original_expression = <<"b", "||", "a">>
    /\ variables = <<"a", "b">>
    /\ Len(truth_table) = Pow2(NumVars)
    /\ DOMAIN mcdc_pairs = {"a", "b"}

\* the methods that generate the table only through a guard
LazyMethods ==
    {"solve", "find_mcdc_pairs", "get_minimal_test_suite",
     "print_truth_table", "print_mcdc_analysis", "print_minimal_suite"}

\* C21: on a freshly constructed solver, solve, find_mcdc_pairs and
\* get_minimal_test_suite generate the truth table exactly once, so the
\* table holds exactly the 2^n rows numbered 1..2^n when the call ends, with
\* no variable (n = 0) and with no pair as well; and once the table has
\* rows, no guard of these methods generates again.
C21_SingleGeneration ==
    [][ /\ (op = "__init__" /\ op' \in LazyMethods) =>
              /\ gen_calls' = 1
              /\ Len(truth_table') = Pow2(NumVars)
              /\ \A k \in DOMAIN truth_table' : truth_table'[k].test_num = k
        /\ (truth_table # <<>> /\ op' \in LazyMethods) =>
              /\ truth_table' = truth_table
              /\ gen_calls' = gen_calls ]_vars

\* solve has run to its end on a decision without variables: one
\* generation, one row, and no pair list
C21_Witness ==
    /\ op = "solve"
    /\ ~raised
    /\ NumVars = 0
    /\ gen_calls = 1
    /\ Len(truth_table) = 1
    /\ DOMAIN mcdc_pairs = {}

-----------------------------------------------------------------------------
(* Termination of greedy_set_cover, checked under CoverFairSpec. *)

Min(a, b) == IF a <= b THEN a ELSE b

\* a completed round: a step of the loop, which stays in the loop, that
\* changes one of its locals
CompletedRound ==
    /\ pc = "loop"
    /\ pc' = "loop"
    /\ <<uncovered, chosen>>' # <<uncovered, chosen>>

\* C22: greedy_set_cover always terminates: every completed round strictly
\* shrinks the uncovered set and appends a test index not appended before,
\* the rounds completed never number more than min(t, m), and a call that
\* has entered the loop ends, with a cover or with None.
C22_GreedyTerminates ==
    /\ [][ CompletedRound =>
              /\ uncovered' \subseteq uncovered
              /\ uncovered' # uncovered
              /\ Len(chosen') = Len(chosen) + 1
              /\ \A k \in DOMAIN chosen : chosen'[k] = chosen[k]
              /\ chosen'[Len(chosen')] \notin Range(chosen) ]_vars
    /\ [](/\ Len(chosen) <= Min(NumTests(M), NumFaults(M))
          /\ \A j, k \in DOMAIN chosen : j # k => chosen[j] # chosen[k]
          /\ pc = "done" => greedy_ret.kind \in {"list", "None"})
    /\ (pc = "loop") ~> (pc = "done")

\* every test was chosen in its own round and faults remain: the loop has
\* ended with None after min(t, m) = t completed rounds
C22_Witness ==
    /\ pc = "done"
    /\ greedy_ret = ReturnNone
    /\ NumTests(M) >= 2
    /\ NumTests(M) < NumFaults(M)
    /\ Len(chosen) = NumTests(M)

-----------------------------------------------------------------------------
(* The shape of the pair lists on a table generated once, checked under    *)
(* Spec.                                                                   *)

\* the number of entries of list in which row number r occurs
Occurrences(list, r) ==
    Cardinality({ k \in DOMAIN list : list[k][1] = r \/ list[k][2] = r })

\* C23: on a truth table generated once, with n variables, every pair
\* (i, j) stored for the variable at position p of the sorted list
\* (counted from 0) has j - i = 2^(n-1-p); so each row occurs in at most
\* one pair per variable, each variable has at most 2^(n-1) pairs, and each
\* list is in strictly increasing order of i.
C23_PairDistance ==
    (gen_calls = 1 /\ DOMAIN mcdc_pairs # {}) =>
        \A q \in DOMAIN variables :
            LET list == mcdc_pairs[variables[q]] IN
            /\ \A k \in DOMAIN list :
                  list[k][2] - list[k][1] = Pow2(NumVars - 1 - (q - 1))
            /\ \A r \in 1..Pow2(NumVars) : Occurrences(list, r) <= 1
            /\ Len(list) <= Pow2(NumVars - 1)
            /\ \A k \in DOMAIN list :
                  k > 1 => list[k - 1][1] < list[k][1]

\* three or more variables, each with a pair, one of them with several
C23_Witness ==
    /\ gen_calls = 1
    /\ NumVars >= 3
    /\ DOMAIN mcdc_pairs = Range(variables)
    /\ \A v \in Range(variables) : mcdc_pairs[v] # <<>>
    /\ \E v \in Range(variables) : Len(mcdc_pairs[v]) >= 3

=============================================================================
